---- MODULE Spec2Model ----
(***************************************************************************)
(* Model of the unisearch Redis adapter (src/src/SearchCollection.ts):     *)
(* text analysis, the index writers, removeFromIndex, the two search       *)
(* paths, and the Redis sorted-set commands they issue.                    *)
(*                                                                         *)
(* A text is a sequence of one-character strings.  A sorted set (zset) is  *)
(* a function from its members (strings) to their scores; the store is a   *)
(* function from the keys that exist to their zsets (Redis never keeps an  *)
(* empty zset: a key whose last member goes away is deleted).              *)
(*                                                                         *)
(* Three specifications: Spec (one client, call after call), SpecConc (two *)
(* clients whose round trips interleave) and SpecPhoneticOnly (the earlier *)
(* adapter of src/unnamed/part_000, whose search refuses any other mode).  *)
(***************************************************************************)
EXTENDS Integers, Sequences, FiniteSets, TLC

VARIABLES mode, store, cur, stage, reads, foreign, calls,
          last, before, carry, live, ever, stale

vars == <<mode, store, cur, stage, reads, foreign, calls,
          last, before, carry, live, ever, stale>>

\* ------------------------------------------------------------------ bounds

\* Number of calls (set, delete, search) one behaviour issues.
MaxCalls == 4

\* Calls issued in a behaviour of the concurrent specification.
MaxConcCalls == 3

\* Calls issued in a behaviour of the phonetic-only adapter.
MaxPhoneticOnlyCalls == 3

\* ------------------------------------------------------- program constants

\* RedisAdapter.index, as the test constructs it: new RedisAdapter("UserSearch", ..).
IndexName == "UserSearch"

\* enum MODES { phonetic, prefix }
MODES == {"phonetic", "prefix"}

\* Mutant of types: "and" and "or" name each other's command.
typesSwapped(t) ==
  CASE t = "intersect" -> "zinterstore"
    [] t = "union"     -> "zunionstore"
    [] t = "and"       -> "zunionstore"
    [] t = "or"        -> "zinterstore"

\* const types = { intersect, union, and, or }: the store command of each.
types(t) ==
  CASE t = "intersect" -> "zinterstore"
    [] t = "union"     -> "zunionstore"
    [] t = "and"       -> "zinterstore"
    [] t = "or"        -> "zunionstore"

\* options?.between?.from ?? 0
DefaultFrom == 0

\* options?.between?.to ?? -1
DefaultTo == -1

\* ------------------------------------------------------------ sequences

RECURSIVE Concat(_)
\* The concatenation of a sequence of sequences (cmds.push in nested loops).
Concat(ss) == IF ss = <<>> THEN <<>> ELSE Head(ss) \o Concat(Tail(ss))

RECURSIVE Str(_)
\* The string a sequence of characters spells.
Str(w) == IF w = <<>> THEN "" ELSE Head(w) \o Str(Tail(w))

RECURSIVE JoinWith(_, _)
\* Array.prototype.join(sep) on a sequence of strings.
JoinWith(ss, sep) ==
  IF ss = <<>> THEN ""
  ELSE IF Len(ss) = 1 THEN ss[1]
  ELSE ss[1] \o sep \o JoinWith(Tail(ss), sep)

\* ------------------------------------------------------------ characters

\* The characters of the texts below that the regular expression \w matches.
WordChars ==
  {"a", "b", "c", "d", "f", "g", "h", "i", "m", "n", "o", "r", "s", "t", "u",
   "z", "B", "F"}

\* String.prototype.toLocaleLowerCase, one character.
toLocaleLowerCase(c) ==
  CASE c = "B" -> "b"
    [] c = "F" -> "f"
    [] OTHER   -> c

\* The alphabet in collation order: localeCompare on lower-cased letters.
Alphabet ==
  <<"a", "b", "c", "d", "f", "g", "h", "i", "m", "n", "o", "r", "s", "t", "u", "z">>

CharRank(c) == CHOOSE i \in 1..Len(Alphabet) : Alphabet[i] = toLocaleLowerCase(c)

RECURSIVE localeCompare(_, _)
\* x.toLocaleLowerCase().localeCompare(y.toLocaleLowerCase()) on two words:
\* negative, zero or positive.
localeCompare(x, y) ==
  IF x = <<>> /\ y = <<>> THEN 0
  ELSE IF x = <<>> THEN -1
  ELSE IF y = <<>> THEN 1
  ELSE IF CharRank(Head(x)) < CharRank(Head(y)) THEN -1
  ELSE IF CharRank(Head(x)) > CharRank(Head(y)) THEN 1
  ELSE localeCompare(Tail(x), Tail(y))

\* --------------------------------------------------------- text analysis

RECURSIVE Scan(_, _, _, _)
\* The maximal runs of \w characters of str from position i on; run is the
\* run being read and acc the runs already closed.
Scan(str, i, run, acc) ==
  LET closed == IF run = <<>> THEN acc ELSE Append(acc, run) IN
  IF i > Len(str) THEN closed
  ELSE IF str[i] \in WordChars THEN Scan(str, i + 1, Append(run, str[i]), acc)
  ELSE Scan(str, i + 1, <<>>, closed)

\* getWords: String(str).match(/\w+/g).  match returns null, never an empty
\* array, when nothing matches: the empty sequence stands for null.
getWords(str) == Scan(str, 1, <<>>, <<>>)

\* The null that String.prototype.match returns.
IsNull(words) == words = <<>>

\* natural.PorterStemmer.stem on the words of the texts below.
nStem(word) ==
  CASE word = "foo"     -> "foo"
    [] word = "bar"     -> "bar"
    [] word = "run"     -> "run"
    [] word = "running" -> "run"
    [] word = "rain"    -> "rain"
    [] word = "smith"   -> "smith"

\* natural.DoubleMetaphone.process on the stems above: the primary and the
\* secondary code, equal when the word has no alternate encoding.
nMetaphone(word) ==
  CASE word = "foo"   -> <<"F", "F">>
    [] word = "bar"   -> <<"PR", "PR">>
    [] word = "run"   -> <<"RN", "RN">>
    [] word = "rain"  -> <<"RN", "RN">>
    [] word = "smith" -> <<"SM0", "XMT">>

\* getStemWords: the stem of every word, in order; [] for null.
getStemWords(words) ==
  IF IsNull(words) THEN <<>>
  ELSE [i \in 1..Len(words) |-> nStem(Str(words[i]))]

\* Object.keys of an object filled by obj[words[i]] = ..: the distinct words
\* in the order of their first occurrence (no word here is integer-like).
ObjectKeys(words) ==
  LET first == {i \in 1..Len(words) : \A j \in 1..(i - 1) : words[j] # words[i]}
      RECURSIVE Pick(_)
      Pick(i) == IF i > Len(words) THEN <<>>
                 ELSE (IF i \in first THEN <<words[i]>> ELSE <<>>) \o Pick(i + 1)
  IN Pick(1)

\* wordLength: word -> number of occurrences.
wordLength(words) ==
  [w \in {words[i] : i \in 1..Len(words)} |->
     Cardinality({i \in 1..Len(words) : words[i] = w})]

\* generateMetaphoneMap: word -> its codes.
generateMetaphoneMap(words) ==
  [w \in {words[i] : i \in 1..Len(words)} |-> nMetaphone(w)]

RECURSIVE PushNew(_, _)
\* constant.forEach(d => { if (!arr.includes(d)) arr.push(d) })
PushNew(arr, ds) ==
  IF ds = <<>> THEN arr
  ELSE PushNew(IF \E i \in 1..Len(arr) : arr[i] = Head(ds)
               THEN arr ELSE Append(arr, Head(ds)),
               Tail(ds))

RECURSIVE MetaphoneFrom(_, _, _)
MetaphoneFrom(words, i, arr) ==
  IF i > Len(words) THEN arr
  ELSE MetaphoneFrom(words, i + 1, PushNew(arr, nMetaphone(words[i])))

\* toMetaphoneArray: the codes of the words, each once, in first-seen order.
toMetaphoneArray(words) == MetaphoneFrom(words, 1, <<>>)

\* getMetaphoneKeys: id + ":word:" + c for every code c.
getMetaphoneKeys(id, words) ==
  LET arr == toMetaphoneArray(words)
  IN [i \in 1..Len(arr) |-> id \o ":word:" \o arr[i]]

\* processLanguage(str, id).  metaphoneKeys is null (here <<>>) for a falsy id.
processLanguage(str, id) ==
  LET words == getStemWords(getWords(str)) IN
  [words         |-> words,
   counts        |-> wordLength(words),
   map           |-> generateMetaphoneMap(words),
   keys          |-> ObjectKeys(words),
   metaphoneKeys |-> IF id = "" THEN <<>> ELSE getMetaphoneKeys(id, words)]

\* Mutant of getTextTokens: the prefixes stop one character short of the word.
getTextTokensShort(words) ==
  [w \in 1..Len(words) |->
     [i \in 1..(Len(words[w]) - 1) |-> Str(SubSeq(words[w], 1, i))]]

\* getTextTokens: for every word, its left-anchored prefixes, shortest first.
getTextTokens(words) ==
  [w \in 1..Len(words) |->
     [i \in 1..Len(words[w]) |-> Str(SubSeq(words[w], 1, i))]]

\* getTokenKeys: the prefixes of all words in one list, duplicates kept.
getTokenKeys(id, tokens) == Concat(tokens)

\* processText(id, str); str has at least one word (else the caller threw).
processText(id, str) ==
  LET tokens == getTextTokens(getWords(str)) IN
  [tokens |-> tokens, keys |-> getTokenKeys(id, tokens)]

\* ---------------------------------------------------- the ordered-set store

\* The member strings that occur (document ids and phonetic codes) in the
\* byte order Redis breaks score ties by.
MemberOrder == <<"1", "2", "3", "4", "F", "PR", "RN", "SM0", "XMT">>

LexRank(m) == CHOOSE i \in 1..Len(MemberOrder) : MemberOrder[i] = m

\* The zset at key; a key that does not exist reads as the empty zset.
Get(st, key) == IF key \in DOMAIN st THEN st[key] ELSE <<>>

\* The store with key holding z; an empty zset deletes the key.
Put(st, key, z) ==
  IF DOMAIN z = {}
  THEN [k \in DOMAIN st \ {key} |-> st[k]]
  ELSE [k \in DOMAIN st \cup {key} |-> IF k = key THEN z ELSE st[k]]

\* Redis zset order: by score, ties by member.
ZLess(z, a, b) ==
  \/ z[a] < z[b]
  \/ z[a] = z[b] /\ LexRank(a) < LexRank(b)

RECURSIVE SortFrom(_, _)
SortFrom(z, S) ==
  IF S = {} THEN <<>>
  ELSE LET m == CHOOSE a \in S : \A b \in S \ {a} : ZLess(z, a, b)
       IN <<m>> \o SortFrom(z, S \ {m})

\* The members of z in ascending rank order.
Ascending(z) == SortFrom(z, DOMAIN z)

Reverse(s) == [i \in 1..Len(s) |-> s[Len(s) + 1 - i]]

\* The elements of list at the ranks start..stop, as ZRANGE and ZREMRANGEBYRANK
\* read them: 0-based, negative indexes count from the end, out-of-range
\* indexes are clipped.
RankWindow(list, start, stop) ==
  LET n  == Len(list)
      s0 == IF start < 0 THEN start + n ELSE start
      e0 == IF stop < 0 THEN stop + n ELSE stop
      s  == IF s0 < 0 THEN 0 ELSE s0
      e  == IF e0 >= n THEN n - 1 ELSE e0
  IN IF s > e \/ s >= n THEN <<>> ELSE SubSeq(list, s + 1, e + 1)

\* Mutant of ZADD: the score is added to the member's score (ZINCRBY).
ZADDIncr(st, key, score, member) ==
  LET z == Get(st, key) IN
  [store |-> Put(st, key, [m \in DOMAIN z \cup {member} |->
                             IF m # member THEN z[m]
                             ELSE IF member \in DOMAIN z THEN z[m] + score
                             ELSE score]),
   reply |-> IF member \in DOMAIN z THEN 0 ELSE 1]

\* ZADD key score member.
ZADD(st, key, score, member) ==
  LET z == Get(st, key) IN
  [store |-> Put(st, key, [m \in DOMAIN z \cup {member} |->
                             IF m = member THEN score ELSE z[m]]),
   reply |-> IF member \in DOMAIN z THEN 0 ELSE 1]

\* ZREM key member.
ZREM(st, key, member) ==
  LET z == Get(st, key) IN
  [store |-> Put(st, key, [m \in DOMAIN z \ {member} |-> z[m]]),
   reply |-> IF member \in DOMAIN z THEN 1 ELSE 0]

\* DEL key.
DEL(st, key) ==
  [store |-> Put(st, key, <<>>),
   reply |-> IF key \in DOMAIN st THEN 1 ELSE 0]

\* Mutant of ZRANGE: with REV the rank window is cut from the ascending order
\* and then reversed, instead of being cut from the descending order.
ZRANGEWindowThenReverse(st, key, start, stop, rev) ==
  LET asc == Ascending(Get(st, key)) IN
  [store |-> st,
   reply |-> IF rev THEN Reverse(RankWindow(asc, start, stop))
             ELSE RankWindow(asc, start, stop)]

\* ZRANGE key start stop [REV].
ZRANGE(st, key, start, stop, rev) ==
  LET asc == Ascending(Get(st, key)) IN
  [store |-> st,
   reply |-> RankWindow(IF rev THEN Reverse(asc) ELSE asc, start, stop)]

\* ZREMRANGEBYRANK key start stop: ranks count in ascending order.
ZREMRANGEBYRANK(st, key, start, stop) ==
  LET z    == Get(st, key)
      win  == RankWindow(Ascending(z), start, stop)
      gone == {win[i] : i \in 1..Len(win)}
  IN [store |-> Put(st, key, [m \in DOMAIN z \ gone |-> z[m]]),
      reply |-> Len(win)]

\* ZREVRANGEBYSCORE key +inf min: the members scoring at least min, highest first.
ZREVRANGEBYSCORE(st, key, min) ==
  LET z   == Get(st, key)
      all == Reverse(Ascending(z))
  IN [store |-> st,
      reply |-> SelectSeq(all, LAMBDA m : z[m] >= min)]

RECURSIVE MaxScores(_, _, _)
\* Mutant of SumScores: the greatest of m's scores (AGGREGATE MAX).
MaxScores(st, keys, m) ==
  IF keys = <<>> THEN 0
  ELSE LET here == IF m \in DOMAIN Get(st, Head(keys)) THEN Get(st, Head(keys))[m] ELSE 0
           rest == MaxScores(st, Tail(keys), m)
       IN IF here > rest THEN here ELSE rest

RECURSIVE SumScores(_, _, _)
\* The sum of m's scores in the zsets at keys (a key listed twice counts twice).
SumScores(st, keys, m) ==
  IF keys = <<>> THEN 0
  ELSE (IF m \in DOMAIN Get(st, Head(keys)) THEN Get(st, Head(keys))[m] ELSE 0)
       + SumScores(st, Tail(keys), m)

\* Mutant of ZINTERSTORE: a destination that exists is kept as it is.
ZINTERSTOREIfAbsent(st, dest, numkeys, keys) ==
  LET src == SubSeq(keys, 1, numkeys)
      ms  == {m \in DOMAIN Get(st, src[1]) :
                \A i \in 1..Len(src) : m \in DOMAIN Get(st, src[i])}
  IN IF dest \in DOMAIN st
     THEN [store |-> st, reply |-> Cardinality(DOMAIN st[dest])]
     ELSE [store |-> Put(st, dest, [m \in ms |-> SumScores(st, src, m)]),
           reply |-> Cardinality(ms)]

\* ZINTERSTORE dest numkeys key..: the members of every source, scores summed.
ZINTERSTORE(st, dest, numkeys, keys) ==
  LET src == SubSeq(keys, 1, numkeys)
      ms  == {m \in DOMAIN Get(st, src[1]) :
                \A i \in 1..Len(src) : m \in DOMAIN Get(st, src[i])}
  IN [store |-> Put(st, dest, [m \in ms |-> SumScores(st, src, m)]),
      reply |-> Cardinality(ms)]

\* ZUNIONSTORE dest numkeys key..: the members of any source, scores summed.
\* Mutant of ZUNIONSTORE: the members dest already holds stay in it (dest is
\* not overwritten but merged into).
ZUNIONSTOREIntoDest(st, dest, numkeys, keys) ==
  LET members == UNION {DOMAIN Get(st, keys[i]) : i \in 1..numkeys}
      old     == Get(st, dest)
      all     == members \cup DOMAIN old
  IN [store |-> Put(st, dest,
                   [m \in all |-> IF m \in members THEN SumScores(st, keys, m)
                                  ELSE old[m]]),
      reply |-> Cardinality(all)]

ZUNIONSTORE(st, dest, numkeys, keys) ==
  LET src == SubSeq(keys, 1, numkeys)
      ms  == UNION {DOMAIN Get(st, src[i]) : i \in 1..Len(src)}
  IN [store |-> Put(st, dest, [m \in ms |-> SumScores(st, src, m)]),
      reply |-> Cardinality(ms)]

\* One command, as the arrays handed to multi() spell it.
ExecCmd(st, c) ==
  CASE c[1] = "zadd"             -> ZADD(st, c[2], c[3], c[4])
    [] c[1] = "zrem"             -> ZREM(st, c[2], c[3])
    [] c[1] = "del"              -> DEL(st, c[2])
    [] c[1] = "zrange"           -> ZRANGE(st, c[2], c[3], c[4], Len(c) = 5)
    [] c[1] = "zremrangebyrank"  -> ZREMRANGEBYRANK(st, c[2], c[3], c[4])
    [] c[1] = "zrevrangebyscore" -> ZREVRANGEBYSCORE(st, c[2], c[4])
    [] c[1] = "zinterstore"      -> ZINTERSTORE(st, c[2], c[3], c[4])
    [] c[1] = "zunionstore"      -> ZUNIONSTORE(st, c[2], c[3], c[4])

RECURSIVE ExecFrom(_, _, _, _)
ExecFrom(st, cmds, i, replies) ==
  IF i > Len(cmds) THEN [store |-> st, replies |-> replies]
  ELSE LET r == ExecCmd(st, cmds[i])
       IN ExecFrom(r.store, cmds, i + 1, Append(replies, r.reply))

\* multi(cmds).exec(): the commands in submission order, as one transaction;
\* the replies in the same order.
Exec(st, cmds) == ExecFrom(st, cmds, 1, <<>>)

\* ------------------------------------------------------------- key names

wordKey(index, code) == index \o ":word:" \o code

objectKey(index, id) == index \o ":object:" \o id

tokenKey(index, token) == index \o ":token:" \o token

\* Mutant of tmpKey: the searches' shared key is a posting set's key.
tmpKeyInPostings(index) == index \o ":word:F"

tmpKey(index) == index \o "tmpkey"

\* ----------------------------------------------------------- index writers

\* Mutant of writeToMetaphoneIndex: only the first stem is indexed.
writeToMetaphoneIndexFirstStem(index, id, nlpObj) ==
  Concat([w \in 1..(IF Len(nlpObj.keys) = 0 THEN 0 ELSE 1) |->
    LET word == nlpObj.keys[w] IN
    Concat([k \in 1..Len(nlpObj.map[word]) |->
      LET wordKeyOf == nlpObj.map[word][k] IN
      << <<"zadd", wordKey(index, wordKeyOf), nlpObj.counts[word], id>>,
         <<"zadd", objectKey(index, id), nlpObj.counts[word], wordKeyOf>> >>])])

\* Mutant of writeToMetaphoneIndex: the reverse index records the code with
\* score 1 instead of the stem's count.
writeToMetaphoneIndexReverseUnit(index, id, nlpObj) ==
  Concat([w \in 1..Len(nlpObj.keys) |->
    LET word == nlpObj.keys[w] IN
    Concat([k \in 1..Len(nlpObj.map[word]) |->
      LET wordKeyOf == nlpObj.map[word][k] IN
      << <<"zadd", wordKey(index, wordKeyOf), nlpObj.counts[word], id>>,
         <<"zadd", objectKey(index, id), 1, wordKeyOf>> >>])])

\* writeToMetaphoneIndex: for every distinct stem, for each of its codes, the
\* forward zadd and the reverse zadd, both with the stem's count as score.
writeToMetaphoneIndex(index, id, nlpObj) ==
  Concat([w \in 1..Len(nlpObj.keys) |->
    LET word == nlpObj.keys[w] IN
    Concat([k \in 1..Len(nlpObj.map[word]) |->
      LET wordKeyOf == nlpObj.map[word][k] IN
      << <<"zadd", wordKey(index, wordKeyOf), nlpObj.counts[word], id>>,
         <<"zadd", objectKey(index, id), nlpObj.counts[word], wordKeyOf>> >>])])

\* writeToTypeAheadIndex: a membership add, score 0, for every token key.
writeToTypeAheadIndex(index, id, tokenObj) ==
  [i \in 1..Len(tokenObj.keys) |->
     <<"zadd", tokenKey(index, tokenObj.keys[i]), 0, id>>]

\* removeFromIndex, the read: zrevrangebyscore(index:object:id, "+inf", 0).
removeFromIndexRead(index, id) ==
  << <<"zrevrangebyscore", objectKey(index, id), "+inf", 0>> >>

\* Mutant of removeFromIndexBatch: the reverse index is deleted, the forward
\* entries stay.
removeFromIndexBatchDelOnly(index, id, constants) ==
  << <<"del", objectKey(index, id)>> >>

\* Mutant of removeFromIndexBatch: the forward entries are removed, the
\* reverse index stays.
removeFromIndexBatchNoDel(index, id, constants) ==
  [i \in 1..Len(constants) |-> <<"zrem", wordKey(index, constants[i]), id>>]

\* Mutant of removeFromIndexBatch: id is removed from the token posting sets
\* as well.
removeFromIndexBatchTokens(index, id, constants) ==
  LET tokens == <<"F", "Fo", "Foo", "B", "Ba", "Bar">> IN
  << <<"del", objectKey(index, id)>> >>
  \o [i \in 1..Len(constants) |-> <<"zrem", wordKey(index, constants[i]), id>>]
  \o [i \in 1..Len(tokens) |-> <<"zrem", tokenKey(index, tokens[i]), id>>]

\* Mutant of removeFromIndexBatch: id is removed from the posting set of
\* every code, whatever the read returned.
removeFromIndexBatchEveryCode(index, id, constants) ==
  LET every == <<"F", "PR", "RN", "SM0", "XMT">> IN
  << <<"del", objectKey(index, id)>> >>
  \o [i \in 1..Len(every) |-> <<"zrem", wordKey(index, every[i]), id>>]

\* removeFromIndex, the batch: del of the reverse index, then a zrem of id
\* from the posting set of every member the read returned.
removeFromIndexBatch(index, id, constants) ==
  << <<"del", objectKey(index, id)>> >>
  \o [i \in 1..Len(constants) |-> <<"zrem", wordKey(index, constants[i]), id>>]

\* ------------------------------------------------------------ the searches

\* const type = (options?.type ? types[options.type] : null) ?? types["and"]
typeOf(call) == IF call.type = "none" THEN types("and") ELSE types(call.type)

\* Mutant of metaphoneSearchBatch: the shared key is trimmed and read before
\* the combination is stored into it.
metaphoneSearchBatchReadFirst(index, call) ==
  LET nlpObj == processLanguage(call.text, index)
      keys   == nlpObj.metaphoneKeys
      tkey   == tmpKey(index)
  IN << <<"zremrangebyrank", tkey, call.from, call.to>>,
        <<"zrange", tkey, call.from, call.to, "REV">>,
        <<typeOf(call), tkey, Len(keys), keys>> >>

\* #metaphoneSearch: no command when the query has no key; else the
\* combination into the shared key, its descending range and the removal of
\* the same rank range, as one batch.
metaphoneSearchBatch(index, call) ==
  LET nlpObj == processLanguage(call.text, index)
      keys   == nlpObj.metaphoneKeys
      tkey   == tmpKey(index)
  IN << <<typeOf(call), tkey, Len(keys), keys>>,
        <<"zrange", tkey, call.from, call.to, "REV">>,
        <<"zremrangebyrank", tkey, call.from, call.to>> >>

RECURSIVE InsertSorted(_, _)
InsertSorted(sorted, w) ==
  IF sorted = <<>> THEN <<w>>
  ELSE IF localeCompare(w, Head(sorted)) < 0 THEN <<w>> \o sorted
  ELSE <<Head(sorted)>> \o InsertSorted(Tail(sorted), w)

RECURSIVE SortWords(_, _)
SortWords(words, i) ==
  IF i = 0 THEN <<>> ELSE InsertSorted(SortWords(words, i - 1), words[i])

\* words.sort((x, y) => lower(x).localeCompare(lower(y))): stable, the words
\* themselves (not lower-cased) in case-insensitive order, as strings.
sortedKeys(words) ==
  LET sorted == SortWords(words, Len(words))
  IN [i \in 1..Len(sorted) |-> Str(sorted[i])]

\* #typeaheadSearch: the key the final zrange reads.
typeaheadKey(index, call) ==
  LET keys == sortedKeys(getWords(call.text)) IN
  IF Len(keys) >= 1
  THEN IF typeOf(call) = types("and")
       THEN index \o ":cache:" \o JoinWith(keys, "&")
       ELSE index \o ":cache:" \o JoinWith(keys, "|")
  ELSE index \o ":token:" \o JoinWith(keys, "")

\* #typeaheadSearch, the batch: the combination of the token posting sets
\* into the cache key when there is at least one key, else nothing.
typeaheadSearchBatch(index, call) ==
  LET keys == sortedKeys(getWords(call.text))
      srcs == [i \in 1..Len(keys) |-> tokenKey(index, keys[i])]
  IN IF Len(keys) >= 1
     THEN << <<typeOf(call), typeaheadKey(index, call), Len(keys), srcs>> >>
     ELSE <<>>

\* #typeaheadSearch, the read after the batch: redis.zrange(tkey, start, stop).
typeaheadSearchRead(index, call) ==
  << <<"zrange", typeaheadKey(index, call), call.from, call.to>> >>

\* ----------------------------------------------------------------- calls

\* Whether the call throws before any store command: in prefix mode a text
\* without a word makes getWords return null, and set (words.map) and search
\* (words.sort) dereference it.
Throws(md, call) ==
  /\ md = "prefix"
  /\ call.op \in {"set", "search"}
  /\ IsNull(getWords(call.text))

\* Mutant of Plan: set in phonetic mode sends every zadd as a round trip of
\* its own instead of one multi()..exec() batch.
PlanUnbatched(md, index, call, constants) ==
  CASE Throws(md, call) -> <<>>
    [] call.op = "set" /\ md = "prefix" /\ ~Throws(md, call) ->
         << writeToTypeAheadIndex(index, call.id, processText(call.id, call.text)) >>
    [] call.op = "set" /\ md # "prefix" ->
         LET cmds == writeToMetaphoneIndex(index, call.id,
                                           processLanguage(call.text, call.id))
         IN [i \in 1..Len(cmds) |-> <<cmds[i]>>]
    [] call.op = "delete" ->
         << removeFromIndexRead(index, call.id),
            removeFromIndexBatch(index, call.id, constants) >>
    [] call.op = "search" /\ md = "prefix" /\ ~Throws(md, call) ->
         << typeaheadSearchBatch(index, call), typeaheadSearchRead(index, call) >>
    [] call.op = "search" /\ md # "prefix" ->
         IF Len(processLanguage(call.text, index).metaphoneKeys) = 0
         THEN <<>>
         ELSE << metaphoneSearchBatch(index, call) >>

\* The round trips of a call to the store, in order: each is one command or
\* one multi()..exec() batch.  constants is what removeFromIndex's read
\* returned (used by its batch only).
Plan(md, index, call, constants) ==
  CASE Throws(md, call) -> <<>>
    [] call.op = "set" /\ md = "prefix" /\ ~Throws(md, call) ->
         << writeToTypeAheadIndex(index, call.id, processText(call.id, call.text)) >>
    [] call.op = "set" /\ md # "prefix" ->
         << writeToMetaphoneIndex(index, call.id, processLanguage(call.text, call.id)) >>
    [] call.op = "delete" ->
         << removeFromIndexRead(index, call.id),
            removeFromIndexBatch(index, call.id, constants) >>
    [] call.op = "search" /\ md = "prefix" /\ ~Throws(md, call) ->
         << typeaheadSearchBatch(index, call), typeaheadSearchRead(index, call) >>
    [] call.op = "search" /\ md # "prefix" ->
         IF Len(processLanguage(call.text, index).metaphoneKeys) = 0
         THEN <<>>
         ELSE << metaphoneSearchBatch(index, call) >>

\* The reply of round trip k the call goes on with: removeFromIndex's
\* constants, #metaphoneSearch's result[1][1], #typeaheadSearch's zrange.
Kept(md, call, k, replies) ==
  CASE call.op = "delete" /\ k = 1                   -> replies[1]
    [] call.op = "search" /\ md # "prefix" /\ k = 1  -> replies[2]
    [] call.op = "search" /\ md = "prefix" /\ k = 2  -> replies[1]
    [] OTHER                                         -> <<>>

\* What the call returns: the list a search found, else nothing of interest
\* (set and delete return true).
Returned(call, kept) == IF call.op = "search" THEN kept ELSE <<>>

\* ---------------------------------------------------------------- inputs

\* Document ids, as the strings Redis stores them as.
Ids == {"1", "2"}

\* The texts given to set and search in phonetic mode:
\* "", "foo", "foo, bar", "rain running run", "smith run".
PhoneticTexts ==
  { <<>>,
    <<"f", "o", "o">>,
    <<"f", "o", "o", ",", " ", "b", "a", "r">>,
    <<"r", "a", "i", "n", " ", "r", "u", "n", "n", "i", "n", "g", " ", "r", "u", "n">>,
    <<"s", "m", "i", "t", "h", " ", "r", "u", "n">> }

\* The texts given to set and search in prefix mode:
\* "", "Foo", "Foo Bar", "Ba".
PrefixTexts ==
  { <<>>,
    <<"F", "o", "o">>,
    <<"F", "o", "o", " ", "B", "a", "r">>,
    <<"B", "a">> }

Texts(md) == IF md = "prefix" THEN PrefixTexts ELSE PhoneticTexts

\* The result windows searched: the default (everything), the first rank,
\* everything after the first rank.
Windows == { <<DefaultFrom, DefaultTo>>, <<0, 0>>, <<1, -1>> }

\* options of a search: none at all, "and" over everything, "or" over each
\* window.
SearchOptions ==
  { [type |-> "none", from |-> DefaultFrom, to |-> DefaultTo],
    [type |-> "and", from |-> DefaultFrom, to |-> DefaultTo] }
  \cup { [type |-> "or", from |-> w[1], to |-> w[2]] : w \in Windows }

SetCall(id, text) ==
  [op |-> "set", id |-> id, text |-> text,
   type |-> "none", from |-> DefaultFrom, to |-> DefaultTo]

DeleteCall(id) ==
  [op |-> "delete", id |-> id, text |-> <<>>,
   type |-> "none", from |-> DefaultFrom, to |-> DefaultTo]

SearchCall(text, o) ==
  [op |-> "search", id |-> "", text |-> text,
   type |-> o.type, from |-> o.from, to |-> o.to]

Idle ==
  [op |-> "idle", id |-> "", text |-> <<>>,
   type |-> "none", from |-> DefaultFrom, to |-> DefaultTo]

\* The calls a client can make on a collection in mode md.
Calls(md) ==
  { SetCall(id, t) : id \in Ids, t \in Texts(md) }
  \cup { DeleteCall(id) : id \in Ids }
  \cup { SearchCall(t, o) : t \in Texts(md), o \in SearchOptions }

\* The round trips of every call that does not depend on a reply, worked out
\* once: the text analysis is a pure function of the call.
PlanTable ==
  [md \in MODES |-> [call \in Calls(md) |-> Plan(md, IndexName, call, <<>>)]]

\* The round trips of a call; only removeFromIndex's depend on a reply.
PlanOf(md, call, constants) ==
  IF call.op = "delete" THEN Plan(md, IndexName, call, constants)
  ELSE PlanTable[md][call]

\* The elements of a list.
ToSet(seq) == {seq[i] : i \in 1..Len(seq)}

\* The clients that issue calls; the sequential specification uses the first.
Procs == {"p1", "p2"}

\* ------------------------------------------------------------------ state
\*  mode       the adapter's mode, fixed by the constructor
\*  store      the Redis keyspace
\*  cur[p]     the call client p is in (Idle when in none)
\*  stage[p]   the number of round trips that call has done
\*  reads[p]   the reply the call kept from its last round trip
\*  foreign    the ops of the calls that had another call's round trip executed
\*             between their first and their last
\*  calls      the number of calls started
\*  last       the last call that returned, with its status and result
\*  before     when last is a search and the same search returned before it
\*             with no call or only one set/delete in between: that search,
\*             its result and the number (0, 1) of calls in between
\*  carry      when last is a set or a delete: the search that returned just
\*             before it
\*  live[id]   the texts set for id since delete(id) last returned
\*  ever[id]   the texts ever set for id
\*  stale      when last is a phonetic search: whether the shared key
\*             existed when its batch executed (an earlier search had left
\*             members in it)

NoSearch == [call |-> Idle, result |-> <<>>, writes |-> 0]

Init ==
  /\ mode \in MODES
  /\ store = <<>>
  /\ cur = [p \in Procs |-> Idle]
  /\ stage = [p \in Procs |-> 0]
  /\ reads = [p \in Procs |-> <<>>]
  /\ foreign = {}
  /\ calls = 0
  /\ last = [call |-> Idle, status |-> "none", result |-> <<>>]
  /\ before = NoSearch
  /\ carry = NoSearch
  /\ live = [id \in Ids |-> {}]
  /\ ever = [id \in Ids |-> {}]
  /\ stale = FALSE

\* The call of client p returns: the history variables record it.
Return(p, call, status, result) ==
  /\ cur' = [cur EXCEPT ![p] = Idle]
  /\ stage' = [stage EXCEPT ![p] = 0]
  /\ reads' = [reads EXCEPT ![p] = <<>>]
  /\ last' = [call |-> call, status |-> status, result |-> result]
  /\ before' = IF call.op # "search" THEN NoSearch
               ELSE IF last.call = call
                 THEN [call |-> last.call, result |-> last.result, writes |-> 0]
               ELSE IF carry.call = call THEN carry
               ELSE NoSearch
  /\ carry' = IF call.op # "search" /\ last.call.op = "search"
               THEN [call |-> last.call, result |-> last.result, writes |-> 1]
             ELSE NoSearch
  /\ live' = IF call.op = "set" /\ status = "ok"
               THEN [live EXCEPT ![call.id] = @ \cup {call.text}]
             ELSE IF call.op = "delete"
               THEN [live EXCEPT ![call.id] = {}]
             ELSE live
  /\ ever' = IF call.op = "set" /\ status = "ok"
               THEN [ever EXCEPT ![call.id] = @ \cup {call.text}]
             ELSE ever
  /\ stale' = /\ call.op = "search" /\ status = "ok" /\ mode = "phonetic"
              /\ tmpKey(IndexName) \in DOMAIN store

\* Client p sends round trip k of its call; the store executes it at once and
\* whole.  Every other call that is between two of its round trips has had a
\* foreign command executed in between.
RoundTrip(p, call, k, constants) ==
  LET plan == PlanOf(mode, call, constants)
      r    == Exec(store, plan[k])
      kept == Kept(mode, call, k, r.replies)
  IN /\ store' = r.store
     /\ foreign' = foreign \cup {cur[q].op : q \in {x \in Procs \ {p} : cur[x].op # "idle"}}
     /\ IF k = Len(plan)
        THEN Return(p, call, "ok", Returned(call, kept))
        ELSE /\ cur' = [cur EXCEPT ![p] = call]
             /\ stage' = [stage EXCEPT ![p] = k]
             /\ reads' = [reads EXCEPT ![p] = kept]
             /\ UNCHANGED <<last, before, carry, live, ever, stale>>

\* Client p starts a call: the text analysis is local, then the first round
\* trip goes out.  A call without a round trip returns (or throws) at once.
Start(p, call, max) ==
  /\ cur[p].op = "idle"
  /\ calls < max
  /\ calls' = calls + 1
  /\ UNCHANGED mode
  /\ IF Len(PlanOf(mode, call, <<>>)) = 0
     THEN /\ Return(p, call, IF Throws(mode, call) THEN "throws" ELSE "ok", <<>>)
          /\ UNCHANGED <<store, foreign>>
     ELSE RoundTrip(p, call, 1, <<>>)

\* Client p's call goes on with its next round trip.
Continue(p) ==
  /\ cur[p].op # "idle"
  /\ UNCHANGED <<mode, calls>>
  /\ RoundTrip(p, cur[p], stage[p] + 1, reads[p])

\* One client: every call returns before the next one starts.
Next ==
  \/ \E call \in Calls(mode) : Start("p1", call, MaxCalls)
  \/ Continue("p1")

Spec == Init /\ [][Next]_vars

\* Two clients: their round trips interleave.
NextConc ==
  \/ \E p \in Procs : \E call \in Calls(mode) : Start(p, call, MaxConcCalls)
  \/ \E p \in Procs : Continue(p)

SpecConc == Init /\ [][NextConc]_vars

\* ------------------------------- the phonetic-only adapter (unnamed/part_000)
\* The earlier adapter: set, delete and the text analysis are those of the
\* phonetic path above, whatever the mode; search refuses any other mode.

\* Mutant of ThrowsPhoneticOnly: search never checks the mode.
ThrowsNever(md, call) == FALSE

\* if (this.mode != MODES.phonetic) throw new Error("We only support
\* phonetic search right now"): the first statement of search.
ThrowsPhoneticOnly(md, call) == call.op = "search" /\ md # "phonetic"

\* The round trips of a call on the phonetic-only adapter.
PlanPhoneticOnly(md, index, call, constants) ==
  CASE ThrowsPhoneticOnly(md, call) -> <<>>
    [] call.op = "set" ->
         << writeToMetaphoneIndex(index, call.id, processLanguage(call.text, call.id)) >>
    [] call.op = "delete" ->
         << removeFromIndexRead(index, call.id),
            removeFromIndexBatch(index, call.id, constants) >>
    [] call.op = "search" /\ ~ThrowsPhoneticOnly(md, call) ->
         IF Len(processLanguage(call.text, index).metaphoneKeys) = 0
         THEN <<>>
         ELSE << metaphoneSearchBatch(index, call) >>

\* The calls made on the phonetic-only adapter: the texts are the phonetic
\* ones whatever mode the constructor was given.
CallsPhoneticOnly == Calls("phonetic")

PlanTablePhoneticOnly ==
  [md \in MODES |->
     [call \in CallsPhoneticOnly |-> PlanPhoneticOnly(md, IndexName, call, <<>>)]]

PlanOfPhoneticOnly(md, call, constants) ==
  IF call.op = "delete" THEN PlanPhoneticOnly(md, IndexName, call, constants)
  ELSE PlanTablePhoneticOnly[md][call]

RoundTripPhoneticOnly(p, call, k, constants) ==
  LET plan == PlanOfPhoneticOnly(mode, call, constants)
      r    == Exec(store, plan[k])
      kept == Kept("phonetic", call, k, r.replies)
  IN /\ store' = r.store
     /\ UNCHANGED foreign
     /\ IF k = Len(plan)
        THEN Return(p, call, "ok", Returned(call, kept))
        ELSE /\ cur' = [cur EXCEPT ![p] = call]
             /\ stage' = [stage EXCEPT ![p] = k]
             /\ reads' = [reads EXCEPT ![p] = kept]
             /\ UNCHANGED <<last, before, carry, live, ever, stale>>

StartPhoneticOnly(p, call, max) ==
  /\ cur[p].op = "idle"
  /\ calls < max
  /\ calls' = calls + 1
  /\ UNCHANGED mode
  /\ IF Len(PlanOfPhoneticOnly(mode, call, <<>>)) = 0
     THEN /\ Return(p, call,
                    IF ThrowsPhoneticOnly(mode, call) THEN "throws" ELSE "ok", <<>>)
          /\ UNCHANGED <<store, foreign>>
     ELSE RoundTripPhoneticOnly(p, call, 1, <<>>)

ContinuePhoneticOnly(p) ==
  /\ cur[p].op # "idle"
  /\ UNCHANGED <<mode, calls>>
  /\ RoundTripPhoneticOnly(p, cur[p], stage[p] + 1, reads[p])

\* One client of the phonetic-only adapter, constructed with either mode.
NextPhoneticOnly ==
  \/ \E call \in CallsPhoneticOnly : StartPhoneticOnly("p1", call, MaxPhoneticOnlyCalls)
  \/ ContinuePhoneticOnly("p1")

SpecPhoneticOnly == Init /\ [][NextPhoneticOnly]_vars

\* ------------------------------------------------- vocabulary of the claims

\* The phonetic codes of a text: those of the stems of its words.
PhoneticCodes(text) ==
  LET stems == getStemWords(getWords(text))
  IN UNION {ToSet(nMetaphone(stems[i])) : i \in 1..Len(stems)}

CodesTable == [t \in PhoneticTexts |-> PhoneticCodes(t)]

CodesOf(text) == CodesTable[text]

AllCodes == UNION {CodesOf(t) : t \in PhoneticTexts}

\* The members of the forward posting set of a code, and a member's score.
Posting(st, code) == DOMAIN Get(st, wordKey(IndexName, code))

Score(st, key, member) == Get(st, key)[member]

\* The last call that returned is a search over the whole result.
FullWindow == last.call.from = 0 /\ last.call.to = -1

LastIsSearch == last.call.op = "search" /\ last.status = "ok"

LastIsAnd == LastIsSearch /\ last.call.type \in {"and", "none"}

LastIsOr == LastIsSearch /\ last.call.type = "or"

\* ---------------------------------------------------------------- claims

\* C1: phonetic mode: once set(D.id, D.text) has returned and no delete(D.id)
\* since, an 'and' search over the whole result for a query whose codes are a
\* non-empty subset of the codes of D.text returns D.id, whatever was set for
\* other ids.
C1_SubsetQueryFindsDocument ==
  (mode = "phonetic" /\ LastIsAnd /\ FullWindow /\ CodesOf(last.call.text) # {})
  => \A id \in Ids : \A t \in live[id] :
       CodesOf(last.call.text) \subseteq CodesOf(t) => id \in ToSet(last.result)

\* C1 happens: the query has fewer codes than a live text of an id, which is
\* returned, while another id that was set too is not.
C1_Witness ==
  /\ mode = "phonetic" /\ LastIsAnd /\ FullWindow
  /\ \E id \in Ids : \E t \in live[id] :
       /\ CodesOf(last.call.text) # {}
       /\ CodesOf(last.call.text) \subseteq CodesOf(t)
       /\ CodesOf(last.call.text) # CodesOf(t)
       /\ id \in ToSet(last.result)
       /\ \E other \in Ids \ {id} : live[other] # {} /\ other \notin ToSet(last.result)

\* C2: phonetic mode, whole result: an 'and' search returns the ids in the
\* intersection of the posting sets of the query's codes, an 'or' search the
\* ids in their union.
C2_AndIsIntersectionOrIsUnion ==
  (mode = "phonetic" /\ LastIsSearch /\ FullWindow /\ CodesOf(last.call.text) # {})
  => /\ LastIsAnd =>
          ToSet(last.result)
            = {id \in Ids : \A c \in CodesOf(last.call.text) : id \in Posting(store, c)}
     /\ LastIsOr =>
          ToSet(last.result)
            = {id \in Ids : \E c \in CodesOf(last.call.text) : id \in Posting(store, c)}
     /\ Cardinality(ToSet(last.result)) = Len(last.result)

\* C2 happens: an 'and' search for two codes returns one id while another id
\* is in the posting set of only one of the codes.
C2_Witness ==
  /\ mode = "phonetic" /\ LastIsAnd /\ FullWindow
  /\ Cardinality(CodesOf(last.call.text)) = 2
  /\ Len(last.result) = 1
  /\ \E id \in Ids \ ToSet(last.result) :
       \E c \in CodesOf(last.call.text) : id \in Posting(store, c)

\* The codes an id was ever indexed under.
EverCodes(id) == UNION {CodesOf(t) : t \in ever[id]}

\* delete(id) returned after the last set(id, ..).
Deleted(id) == ever[id] # {} /\ live[id] = {}

\* C3: phonetic mode: after delete(id) with no later set(id, ..), no search
\* whose query uses a code id was ever indexed under returns id.
C3_DeletedIdNotReturned ==
  (mode = "phonetic" /\ LastIsSearch)
  => \A id \in Ids :
       (Deleted(id) /\ CodesOf(last.call.text) \cap EverCodes(id) # {})
       => id \notin ToSet(last.result)

\* C3 happens: a search with a code of a deleted id, which two set calls with
\* different texts had indexed, does not return it.
C3_Witness ==
  /\ mode = "phonetic" /\ LastIsSearch
  /\ \E id \in Ids :
       /\ Deleted(id)
       /\ Cardinality(ever[id]) = 2
       /\ CodesOf(last.call.text) \cap EverCodes(id) # {}
       /\ id \notin ToSet(last.result)

\* The words of a text and whether p is a left-anchored prefix of w.
WordsTable == [t \in PrefixTexts |-> getWords(t)]

IsPrefixOf(p, w) == Len(p) <= Len(w) /\ SubSeq(w, 1, Len(p)) = p

\* The ids in S in the store's ascending member order.
InMemberOrder(S) == Ascending([m \in S |-> 0])

\* C4: prefix mode, whole result: a single-token search for p returns exactly
\* the ids for which some set call had a word with prefix p, in ascending
\* member order.
C4_PrefixSearchExact ==
  (mode = "prefix" /\ LastIsSearch /\ FullWindow /\ Len(WordsTable[last.call.text]) = 1)
  => LET p == WordsTable[last.call.text][1] IN
     last.result
       = InMemberOrder({id \in Ids : \E t \in ever[id] :
                          \E i \in 1..Len(WordsTable[t]) : IsPrefixOf(p, WordsTable[t][i])})

\* C4 happens: the token is a proper prefix of a word of one id's text, which
\* is returned, and of no word of another id that was set, which is not.
C4_Witness ==
  /\ mode = "prefix" /\ LastIsSearch /\ FullWindow
  /\ Len(WordsTable[last.call.text]) = 1
  /\ \E id \in ToSet(last.result) : last.call.text \notin ever[id]
  /\ \E id \in Ids \ ToSet(last.result) : ever[id] # {}

\* C5: phonetic mode, calls one after another: id is in the forward posting
\* set of code c exactly when c is in the reverse index of id, with the same
\* score.
C5_ForwardReverseConsistent ==
  mode = "phonetic"
  => \A c \in AllCodes : \A id \in Ids :
       LET fwd == Get(store, wordKey(IndexName, c))
           rev == Get(store, objectKey(IndexName, id))
       IN /\ id \in DOMAIN fwd <=> c \in DOMAIN rev
          /\ id \in DOMAIN fwd => fwd[id] = rev[c]

\* C5 happens: one id is indexed under a code with score 2 and another id
\* has been deleted.
C5_Witness ==
  /\ mode = "phonetic"
  /\ \E id \in Ids : \E c \in AllCodes :
       /\ id \in Posting(store, c)
       /\ \E other \in Ids \ {id} : Deleted(other)
  /\ \E id \in Ids : \E c \in AllCodes :
       id \in Posting(store, c) /\ Score(store, wordKey(IndexName, c), id) = 2

\* The ops of the calls that issue more than one round trip: delete reads the
\* reverse index before its batch, a prefix search reads its result after its
\* batch.
TwoRoundTripOps == {"delete"} \cup (IF mode = "prefix" THEN {"search"} ELSE {})

\* A call threw in this step, before any store command.
ThrowsNow == calls' = calls + 1 /\ cur' = cur /\ last'.status = "throws"

\* C6, as stated: no call ever has a command of another call executed
\* between its first and its last store command.
C6_AllCallsAtomic == foreign = {}

\* C6, amended: only a delete and a prefix-mode search can have another
\* call's commands executed between their own; a set and a phonetic search
\* are one batch.  A call that throws leaves the store as it was.
C6_SingleBatchCallsAtomic ==
  [][ /\ foreign' \subseteq TwoRoundTripOps
      /\ ThrowsNow => store' = store ]_vars

\* C6 happens: in phonetic mode a set returned between the read and the
\* batch of a delete, and no set was itself interleaved with.
C6_Witness ==
  /\ mode = "phonetic"
  /\ foreign = {"delete"}
  /\ last.call.op = "set"
  /\ \E p \in Procs : cur[p].op = "delete" /\ stage[p] = 1

\* The score of id under code c, 0 when id is not in the posting set.
ScoreIn(st, c, id) ==
  IF id \in Posting(st, c) THEN Score(st, wordKey(IndexName, c), id) ELSE 0

\* The score set(id, t) gives id under code c on an empty index.
ScoreAloneTable ==
  [t \in PhoneticTexts |->
     [c \in AllCodes |->
        ScoreIn(Exec(<<>>, Plan("phonetic", IndexName, SetCall("1", t), <<>>)[1]).store,
                c, "1")]]

ScoreAlone(t, c) == ScoreAloneTable[t][c]

\* A set call returned in this step, in phonetic mode.
SetReturnsNow ==
  /\ mode = "phonetic"
  /\ calls' = calls + 1 /\ cur' = cur
  /\ last'.call.op = "set" /\ last'.status = "ok"

\* The index holds for id exactly what set(id, t1) alone gives.
OnlySet(id, t1) ==
  /\ live[id] = {t1}
  /\ \A c \in AllCodes : ScoreIn(store, c, id) = ScoreAlone(t1, c)

\* C7, as stated: after set(id, t1) followed by set(id, t2) the score of id
\* under a code is the sum of what each set alone gives.
C7_ScoresAccumulate ==
  [][ \A t1 \in PhoneticTexts :
        (SetReturnsNow /\ OnlySet(last'.call.id, t1))
        => \A c \in AllCodes :
             ScoreIn(store', c, last'.call.id)
               = ScoreAlone(t1, c) + ScoreAlone(last'.call.text, c) ]_vars

\* C7, amended: a set overwrites the score of every code of its text with the
\* score it alone gives, and leaves the scores under the other codes.
C7_LaterSetOverwrites ==
  [][ SetReturnsNow
      => \A c \in AllCodes :
           ScoreIn(store', c, last'.call.id)
             = IF c \in CodesOf(last'.call.text)
               THEN ScoreAlone(last'.call.text, c)
               ELSE ScoreIn(store, c, last'.call.id) ]_vars

\* C7 happens: an id was set with two texts that share a code, and its score
\* under that code is not the sum of the two.
C7_Witness ==
  /\ mode = "phonetic" /\ last.call.op = "set"
  /\ \E t1 \in live[last.call.id] \ {last.call.text} :
       \E c \in CodesOf(t1) \cap CodesOf(last.call.text) :
         /\ Cardinality(live[last.call.id]) = 2
         /\ ScoreIn(store, c, last.call.id) = ScoreAlone(last.call.text, c)
         /\ ScoreIn(store, c, last.call.id)
              # ScoreAlone(t1, c) + ScoreAlone(last.call.text, c)

\* The search that returned last returned just before it too, with no call in
\* between.
Repeated ==
  LastIsSearch /\ before.call = last.call /\ before.writes = 0

\* C8, as stated: the second of two identical searches in a row returns an
\* empty list.
C8_SecondSearchEmpty ==
  (mode = "phonetic" /\ Repeated) => last.result = <<>>

\* C8, amended: the second of two identical searches in a row returns what
\* the first returned.
C8_RepeatedSearchSameResult ==
  (mode = "phonetic" /\ Repeated) => last.result = before.result

\* C8 happens: a search over the first rank only, repeated, returns an id
\* both times.
C8_Witness ==
  /\ mode = "phonetic" /\ Repeated
  /\ last.call.from = 0 /\ last.call.to = 0
  /\ last.result # <<>>
  /\ tmpKey(IndexName) \in DOMAIN store

\* The members of the posting set of a token.
TokenPosting(st, word) == DOMAIN Get(st, tokenKey(IndexName, Str(word)))

\* The ids in the combination of the posting sets of the words of a query.
Combination(st, call) ==
  LET words == WordsTable[call.text] IN
  IF typeOf(call) = "zinterstore"
  THEN {id \in Ids : \A i \in 1..Len(words) : id \in TokenPosting(st, words[i])}
  ELSE {id \in Ids : \E i \in 1..Len(words) : id \in TokenPosting(st, words[i])}

MultiToken(call) == Len(WordsTable[call.text]) >= 2

\* C9, as stated: a multi-token prefix search whose cache key exists leaves
\* the key's contents as the earlier search stored them (and returns them).
C9_CacheReused ==
  [][ \A p \in Procs :
        ( /\ mode = "prefix"
          /\ cur[p].op = "idle" /\ cur'[p].op = "search"
          /\ MultiToken(cur'[p])
          /\ typeaheadKey(IndexName, cur'[p]) \in DOMAIN store )
        => Get(store', typeaheadKey(IndexName, cur'[p]))
             = Get(store, typeaheadKey(IndexName, cur'[p])) ]_vars

\* C9, amended: a multi-token prefix search returns the window of the
\* combination of the token posting sets as they stand at the search.
C9_SearchRecomputes ==
  (mode = "prefix" /\ LastIsSearch /\ MultiToken(last.call))
  => /\ last.result
          = RankWindow(InMemberOrder(Combination(store, last.call)),
                       last.call.from, last.call.to)
     /\ FullWindow =>
          ToSet(last.result)
            = DOMAIN Get(store, typeaheadKey(IndexName, last.call))

\* C9 happens: the same multi-token search returned before and after a set,
\* first one id, then, its cache key already populated, two.
C9_Witness ==
  /\ mode = "prefix" /\ LastIsSearch /\ MultiToken(last.call)
  /\ before.call = last.call /\ before.writes = 1
  /\ Len(before.result) = 1
  /\ Len(last.result) = 2

\* C10, as stated: a prefix search with exactly one token changes no key of
\* the store.
C10_SingleTokenSearchWritesNothing ==
  [][ \A p \in Procs :
        LET c == IF cur[p].op = "idle" THEN cur'[p] ELSE cur[p] IN
        ( /\ mode = "prefix"
          /\ c.op = "search"
          /\ Len(WordsTable[c.text]) = 1 )
        => store' = store ]_vars

\* The text yields no token: getWords finds no word in it.
ZeroTokens(text) == IsNull(getWords(text))

\* A search of a text without a token returned or threw in this step.
ZeroTokenSearchNow ==
  /\ calls' = calls + 1 /\ cur' = cur
  /\ last'.call.op = "search" /\ ZeroTokens(last'.call.text)

\* C11, as stated: in both modes a search whose text yields no token returns
\* an empty list and raises no error; in phonetic mode the store is sent no
\* command (it stays as it was).
C11_EmptyQueryReturnsEmpty ==
  [][ ZeroTokenSearchNow
      => /\ last'.status = "ok"
         /\ last'.result = <<>>
         /\ mode = "phonetic" => store' = store ]_vars

\* C12: on the phonetic-only adapter a search in any other mode throws before
\* any store command: the call ends in the step it starts in, with an error,
\* and the store is what it was.
C12_UnsupportedModeThrowsFirst ==
  [][ (mode # "phonetic" /\ calls' = calls + 1 /\ cur' = cur)
      => (last'.call.op = "search"
          => last'.status = "throws" /\ last'.result = <<>> /\ store' = store) ]_vars

\* C12 happens: the adapter holds another mode, a text was set, and a search
\* for that very text threw while the posting sets it would have combined
\* are in the store.
C12_Witness ==
  /\ mode # "phonetic"
  /\ last.call.op = "search" /\ last.status = "throws"
  /\ \E id \in Ids : last.call.text \in live[id]
  /\ \E c \in CodesOf(last.call.text) : Posting(store, c) # {}
  /\ tmpKey(IndexName) \notin DOMAIN store

\* A phonetic search returned in this step (its batch executed on store).
PhoneticSearchReturnsNow ==
  /\ mode = "phonetic"
  /\ calls' = calls + 1 /\ cur' = cur
  /\ last'.call.op = "search" /\ last'.status = "ok"

\* What the search returns when it runs alone on the posting sets of st: on
\* st without the shared key.
AloneResult(st, call) ==
  LET plan == PlanOf("phonetic", call, <<>>) IN
  IF Len(plan) = 0 THEN <<>>
  ELSE Kept("phonetic", call, 1,
            Exec(DEL(st, tmpKey(IndexName)).store, plan[1]).replies)

\* C13, as stated, for the interleavings the store allows (the batches of
\* two searches execute one after the other): a search whose batch finds in
\* the shared key what another search left there returns a list different
\* from the one it returns alone on the same posting sets.
C13_LeftoverCorruptsSearch ==
  [][ (PhoneticSearchReturnsNow /\ stale')
      => last'.result # AloneResult(store, last'.call) ]_vars

\* C13, amended: searches do not corrupt each other: whatever the clients'
\* calls left in the shared key, a search returns the list it returns alone
\* on the posting sets its batch finds.
C13_SearchReturnsAsAlone ==
  [][ PhoneticSearchReturnsNow
      => last'.result = AloneResult(store, last'.call) ]_vars

\* C13 happens: with two clients, a search returned an id after its batch
\* found the shared key holding what a different search had left in it.
C13_Witness ==
  /\ mode = "phonetic" /\ LastIsSearch
  /\ stale
  /\ before.call # last.call
  /\ last.result # <<>>

\* The store after set(id, a) and then set(id, b) on an empty index, for
\* every id and pair of texts (a first batch that wrote nothing leaves the
\* empty index).
AfterBothTable ==
  [id \in Ids |-> [a \in PhoneticTexts |-> [b \in PhoneticTexts |->
     LET first == Exec(<<>>, PlanOf("phonetic", SetCall(id, a), <<>>)[1]).store
     IN IF DOMAIN first = {} THEN Exec(<<>>, PlanOf("phonetic", SetCall(id, b), <<>>)[1]).store
        ELSE Exec(first, PlanOf("phonetic", SetCall(id, b), <<>>)[1]).store]]]

AfterBoth(id, a, b) == AfterBothTable[id][a][b]

\* The score of code c in the reverse index of id, 0 when it is not there.
ReverseScoreIn(st, id, c) ==
  LET rev == Get(st, objectKey(IndexName, id)) IN
  IF c \in DOMAIN rev THEN rev[c] ELSE 0

\* The two clients' calls were set(id, t1) and set(id, t2) with different
\* texts, on an empty index, and both have returned.
TwoSets(id, t1, t2) ==
  /\ mode = "phonetic"
  /\ calls = 2 /\ \A p \in Procs : cur[p].op = "idle"
  /\ t1 # t2 /\ live[id] = {t1, t2}

\* C14, as stated: after two concurrent set calls on the same id the store
\* (every forward posting set and the reverse index) is what either order of
\* the two batches gives.
C14_FinalScoresOrderIndependent ==
  \A id \in Ids : \A t1, t2 \in PhoneticTexts :
    TwoSets(id, t1, t2)
    => store = AfterBoth(id, t1, t2) /\ store = AfterBoth(id, t2, t1)

\* C14, amended: the batch the store executes last decides: under a code of
\* its text the score is the one it gives, under the other codes the one the
\* first batch gave, in the forward posting sets and in the reverse index
\* alike.  The order does not matter exactly when the two texts give the
\* same score under every code they share.
C14_LastBatchDecides ==
  \A t1 \in PhoneticTexts :
    (last.call.op = "set" /\ TwoSets(last.call.id, t1, last.call.text))
    => LET id == last.call.id
           t2 == last.call.text
       IN /\ \A c \in AllCodes :
               LET score == IF c \in CodesOf(t2) THEN ScoreAlone(t2, c)
                            ELSE ScoreAlone(t1, c)
               IN /\ ScoreIn(store, c, id) = score
                  /\ ReverseScoreIn(store, id, c) = score
          /\ store = AfterBoth(id, t1, t2)
          /\ store = AfterBoth(id, t2, t1)
               <=> \A c \in CodesOf(t1) \cap CodesOf(t2) :
                     ScoreAlone(t1, c) = ScoreAlone(t2, c)

\* C14 happens: the two texts share a code under which they give different
\* scores, and the store is not what the other order of the batches gives.
C14_Witness ==
  \E t1 \in PhoneticTexts :
    /\ last.call.op = "set" /\ TwoSets(last.call.id, t1, last.call.text)
    /\ \E c \in CodesOf(t1) \cap CodesOf(last.call.text) :
         /\ ScoreAlone(t1, c) # ScoreAlone(last.call.text, c)
         /\ ScoreIn(store, c, last.call.id) = ScoreAlone(last.call.text, c)
    /\ store # AfterBoth(last.call.id, last.call.text, t1)

\* Splits of the rank range 0..-1 into consecutive windows that cover it.
Splits ==
  { << <<0, 0>>, <<1, -1>> >>,
    << <<0, 1>>, <<2, -1>> >>,
    << <<0, 0>>, <<1, 1>>, <<2, -1>> >> }

\* The search call with another window.
PageCall(call, w) == [call EXCEPT !.from = w[1], !.to = w[2]]

\* The batch of every phonetic search over every window of a split.
PageTable ==
  [call \in { PageCall(SearchCall(t, [type |-> ty, from |-> 0, to |-> -1]), w) :
                t \in PhoneticTexts, ty \in {"none", "and", "or"},
                w \in UNION {ToSet(sp) : sp \in Splits} }
     |-> Plan("phonetic", IndexName, call, <<>>)]

\* search(text, {type, between: w}) on store st: the store it leaves and the
\* list it returns.
Page(st, call, w) ==
  LET plan == PageTable[PageCall(call, w)] IN
  IF Len(plan) = 0 THEN [store |-> st, result |-> <<>>]
  ELSE LET r == Exec(st, plan[1])
       IN [store |-> r.store, result |-> Kept("phonetic", call, 1, r.replies)]

\* One search per window of the split from its i-th on, each on the store the
\* one before left: the lists returned, concatenated.
RECURSIVE RunSplit(_, _, _, _)
RunSplit(st, call, split, i) ==
  IF i > Len(split) THEN <<>>
  ELSE LET page == Page(st, call, split[i])
       IN page.result \o RunSplit(page.store, call, split, i + 1)

\* C15: phonetic mode, calls one after another: after a search over the whole
\* range has returned, one search per window of a split of the range, run on
\* the same posting sets, return lists whose concatenation is the list the
\* whole-range search returned; no id is in it twice.
C15_PagesConcatenateToWhole ==
  (mode = "phonetic" /\ LastIsSearch /\ FullWindow /\ CodesOf(last.call.text) # {})
  => /\ \A split \in Splits : RunSplit(store, last.call, split, 1) = last.result
     /\ Cardinality(ToSet(last.result)) = Len(last.result)

\* C15 happens: the whole-range search returned two ids, and the first of two
\* windows returns the first one, the second window the other.
C15_Witness ==
  /\ mode = "phonetic" /\ LastIsSearch /\ FullWindow
  /\ Len(last.result) = 2
  /\ LET first == Page(store, last.call, <<0, 0>>)
     IN /\ first.result = <<last.result[1]>>
        /\ Page(first.store, last.call, <<1, -1>>).result = <<last.result[2]>>
        /\ tmpKey(IndexName) \in DOMAIN first.store

\* The accumulated score of id for a query: the sum of its scores in the
\* posting sets of the query's codes that contain it.
RECURSIVE Accumulated(_, _, _)
Accumulated(st, codes, id) ==
  IF codes = {} THEN 0
  ELSE LET c == CHOOSE x \in codes : TRUE
       IN ScoreIn(st, c, id) + Accumulated(st, codes \ {c}, id)

\* C16: phonetic mode: in the list a search returns, an id never comes
\* before one with a greater accumulated score.
C16_OrderedByAccumulatedScore ==
  (mode = "phonetic" /\ LastIsSearch)
  => \A i, j \in 1..Len(last.result) :
       i < j => Accumulated(store, CodesOf(last.call.text), last.result[i])
                  >= Accumulated(store, CodesOf(last.call.text), last.result[j])

\* C16 happens: a query with several codes returns id 1 before id 2, against
\* the descending member order, because its accumulated score is greater,
\* while under one of the codes its score is the smaller one.
C16_Witness ==
  /\ mode = "phonetic" /\ LastIsSearch
  /\ last.result = <<"1", "2">>
  /\ Cardinality(CodesOf(last.call.text)) >= 2
  /\ Accumulated(store, CodesOf(last.call.text), "1")
       > Accumulated(store, CodesOf(last.call.text), "2")
  /\ \E c \in CodesOf(last.call.text) : ScoreIn(store, c, "1") < ScoreIn(store, c, "2")

\* The number of stemmed-word occurrences in a text whose codes include c.
OccurrencesTable ==
  [t \in PhoneticTexts |->
     LET stems == getStemWords(getWords(t)) IN
     [c \in AllCodes |->
        Cardinality({i \in 1..Len(stems) : c \in ToSet(nMetaphone(stems[i]))})]]

Occurrences(t, c) == OccurrencesTable[t][c]

\* C17, as stated: after a single set(id, text) on an empty index the score
\* of id under every code is the number of stemmed-word occurrences in text
\* whose codes include it (0: id is not in the posting set).
C17_ScoreCountsOccurrences ==
  (mode = "phonetic" /\ calls = 1 /\ last.call.op = "set" /\ last.status = "ok")
  => \A c \in AllCodes :
       ScoreIn(store, c, last.call.id) = Occurrences(last.call.text, c)

\* id is in the forward posting set of code c and the reverse index of id
\* does not name c.
Orphan(st, id, c) ==
  /\ id \in Posting(st, c)
  /\ c \notin DOMAIN Get(st, objectKey(IndexName, id))

\* Client p's delete executes its removal batch in this step.
DeleteBatchNow(p) ==
  cur[p].op = "delete" /\ stage[p] = 1 /\ cur'[p].op = "idle"

\* C18: phonetic mode, two clients: id is left in a posting set its reverse
\* index does not name only when another call's commands executed between a
\* delete's read and its batch; and the batch of a delete(id) whose read did
\* not return a code leaves id in that code's posting set.
C18_DeleteSetRaceOrphans ==
  /\ [](mode = "phonetic"
        => \A id \in Ids : \A c \in AllCodes :
             Orphan(store, id, c) => "delete" \in foreign)
  /\ [][ \A p \in Procs : \A c \in AllCodes :
           ( /\ mode = "phonetic"
             /\ DeleteBatchNow(p)
             /\ c \notin ToSet(reads[p])
             /\ cur[p].id \in Posting(store, c) )
           => Orphan(store', cur[p].id, c) ]_vars

\* C18 happens: a set(id, text) executed between the read and the batch of a
\* delete(id); id is in a posting set, its reverse index is gone, and a later
\* delete(id) has read the reverse index and found no code to remove id from.
C18_Witness ==
  /\ mode = "phonetic" /\ calls = 3
  /\ "delete" \in foreign
  /\ \E p \in Procs : \E c \in AllCodes :
       /\ cur[p].op = "delete" /\ stage[p] = 1 /\ reads[p] = <<>>
       /\ \A q \in Procs \ {p} : cur[q].op = "idle"
       /\ last.call = DeleteCall(cur[p].id)
       /\ Cardinality(ever[cur[p].id]) = 1
       /\ Orphan(store, cur[p].id, c)

\* Some set(id, ..) had a word with prefix w.
Indexed(id, w) ==
  \E t \in ever[id] : \E i \in 1..Len(WordsTable[t]) : IsPrefixOf(w, WordsTable[t][i])

\* C19: calls one after another: the batch of a delete(id) whose read of the
\* reverse index returned nothing changes no key but (at most) the reverse
\* index; in prefix mode the read always returns nothing, and a search over
\* the whole result returns every id whose texts had all the query's tokens,
\* deleted or not.
C19_DeleteWithoutReverseIndex ==
  /\ [][ \A p \in Procs :
           (DeleteBatchNow(p) /\ reads[p] = <<>>)
           => \A k \in (DOMAIN store \cup DOMAIN store') \ {objectKey(IndexName, cur[p].id)} :
                Get(store', k) = Get(store, k) ]_vars
  /\ [](mode = "prefix"
        => /\ \A p \in Procs : reads[p] = <<>> \/ cur[p].op # "delete"
           /\ (LastIsSearch /\ FullWindow)
              => \A id \in Ids :
                   (\A i \in 1..Len(WordsTable[last.call.text]) :
                      Indexed(id, WordsTable[last.call.text][i]))
                   => id \in ToSet(last.result))

\* C19 happens: in prefix mode an id was set, then deleted, and a search for
\* a prefix of a word of its text returned it.
C19_Witness ==
  /\ mode = "prefix" /\ LastIsSearch /\ FullWindow
  /\ \E id \in ToSet(last.result) :
       /\ Deleted(id)
       /\ \A i \in 1..Len(WordsTable[last.call.text]) :
            Indexed(id, WordsTable[last.call.text][i])

\* The tokens set writes in prefix mode: every prefix of every word.
AllTokens ==
  UNION { UNION { { Str(SubSeq(WordsTable[t][i], 1, n)) : n \in 1..Len(WordsTable[t][i]) } :
                    i \in 1..Len(WordsTable[t]) } :
            t \in PrefixTexts }

\* The permanent keys of the index: forward posting sets and reverse indexes.
PermanentKeys ==
  { wordKey(IndexName, c) : c \in AllCodes }
  \cup { tokenKey(IndexName, tok) : tok \in AllTokens }
  \cup { objectKey(IndexName, id) : id \in Ids }

\* The keys a search stores its combination under: the shared key of the
\* phonetic searches, the cache keys of the prefix searches.
EphemeralKeys ==
  { tmpKey(IndexName) }
  \cup { typeaheadKey(IndexName, call) :
           call \in { c \in Calls("prefix") : c.op = "search" /\ ~Throws("prefix", c) } }

\* The call the client's step belongs to.
CallOfStep ==
  IF cur["p1"].op # "idle" THEN cur["p1"]
  ELSE IF cur'["p1"].op # "idle" THEN cur'["p1"]
  ELSE last'.call

\* C20: a step of a search (its batch, its read), in either mode, leaves every
\* permanent key with the members and scores it had; a key it changes is the
\* shared key or a cache key.
C20_SearchKeepsPermanentKeys ==
  [][ CallOfStep.op = "search"
      => /\ \A k \in PermanentKeys : Get(store', k) = Get(store, k)
         /\ \A k \in DOMAIN store \cup DOMAIN store' :
              Get(store', k) # Get(store, k) => k \in EphemeralKeys \ PermanentKeys ]_vars

\* C20 happens: both ids are indexed, a search over the ranks after the first
\* returned an id, and the shared key it wrote is in the store beside the
\* posting sets.
C20_Witness ==
  /\ mode = "phonetic" /\ LastIsSearch
  /\ last.call.from = 1 /\ last.result # <<>>
  /\ tmpKey(IndexName) \in DOMAIN store
  /\ \A id \in Ids : live[id] # {} /\ objectKey(IndexName, id) \in DOMAIN store

====
